---------------------------- MODULE Spec2Model ----------------------------
(***************************************************************************)
(* replace_bgm: builds a random background-music playlist that covers a    *)
(* video's duration under per-rule time quotas, writes a subtitle track     *)
(* naming every segment and hands both to ffmpeg.                           *)
(*                                                                          *)
(* Times are f64 seconds in the program.  Here they are fixed-point: an     *)
(* integer number of ticks, TicksPerSecond ticks to the second, so that     *)
(* fractional values such as 59.9 s exist.  A path is the sequence of its   *)
(* '/'-separated segments ("/m/a/x.mp3" is <<"", "m", "a", "x.mp3">>), which *)
(* is what path.split('/') yields.                                          *)
(***************************************************************************)
EXTENDS Integers, Sequences, FiniteSets, TLC

VARIABLES
    pc,                   \* position in main / replace_audio
    script,               \* the script's (path, minutes) pairs
    video_duration,       \* what ffprobe reports for the video
    rule_entries,         \* main: rules
    total_duration,       \* generate_play_list: target, in ticks
    play_list,            \* generate_play_list: chosen paths
    display_namelist,     \* generate_play_list: DisplayName records
    path_displayname_map, \* generate_play_list: the display-name cache
    total_time,           \* generate_play_list: total scheduled time
    cur_time,             \* generate_play_list: time in the current rule
    index,                \* generate_play_list: current rule, 0-based
    playlist_file,        \* replace_audio: the track-list temp file
    srt_file,             \* replace_audio: the subtitle temp file
    ffmpeg,               \* the ffmpeg child process
    abort_reason,         \* which panic ended the run, "none" otherwise
    inspector_calls,      \* history: ffmpeg::format::input calls per path
    first_name,           \* history: first name get_display_name returned per path
    rule_origin,          \* history: rule index each track was picked from
    rotated,              \* history: whether the rule rotated after each track
    timestamp,            \* format_time: its argument, in ticks
    formatted             \* format_time: its result

vars == <<pc, script, video_duration, rule_entries, total_duration, play_list,
          display_namelist, path_displayname_map, total_time, cur_time, index,
          playlist_file, srt_file, ffmpeg, abort_reason, inspector_calls,
          first_name, rule_origin, rotated, timestamp, formatted>>

(***************************************************************************)
(* Resolution and bounds.                                                   *)
(***************************************************************************)
TicksPerSecond == 10

MaxRules == 2

MaxQuotaMinutes == 1

MaxTarget == 1300

MaxTimestamp == 75000

(***************************************************************************)
(* The world outside the program: the file system, ffprobe and the ffmpeg  *)
(* library's view of each file.                                             *)
(***************************************************************************)
\* An Option or Result is a sequence: <<>> for None / Err, <<v>> for Some(v) / Ok(v)
None == <<>>
Some(v) == <<v>>

DirA == <<"", "m", "a">>
FileS30 == <<"", "m", "a", "s30.mp3">>
FileS45 == <<"", "m", "a", "s45.mp3">>
FileB == <<"", "m", "b.mp3">>
DirC == <<"", "m", "c">>
FileC60 == <<"", "m", "c", "c60.mp3">>
FileC40 == <<"", "m", "c", "c40.mp3">>
DirEmpty == <<"", "m", "empty">>
FileBad == <<"", "m", "bad.mp3">>
FileLocked == <<"", "m", "locked.mp3">>

AllFiles == {FileS30, FileS45, FileB, FileC60, FileC40, FileBad, FileLocked}
AllDirs == {DirA, DirC, DirEmpty}
Sources == {DirA, FileS30, FileS45, FileB, DirC, DirEmpty, FileBad, FileLocked}

\* Path::is_file, Path::is_dir, Path::read_dir (file names, in listing order)
IsFile(path) == path \in AllFiles
IsDir(path) == path \in AllDirs
ReadDir(path) ==
    CASE path = DirA -> <<"s30.mp3", "s45.mp3">>
      [] path = DirC -> <<"c60.mp3", "c40.mp3">>
      [] OTHER -> <<>>

\* ffprobe's format=duration for a path, parsed as a number of ticks; None when
\* its output does not parse as a number
FfprobeDuration(path) ==
    CASE path = FileS30 -> Some(30 * TicksPerSecond)
      [] path = FileS45 -> Some(45 * TicksPerSecond)
      [] path = FileB -> Some(20 * TicksPerSecond)
      [] path = FileC60 -> Some(60 * TicksPerSecond)
      [] path = FileC40 -> Some(40 * TicksPerSecond)
      [] path = FileLocked -> Some(30 * TicksPerSecond)
      [] OTHER -> None

\* whether ffmpeg::format::input(path) is Ok, and the metadata it then holds
\* (s30 has both tags, b a title only, c60 an artist only, c40 an empty title,
\* s45 and bad none)
InputOpens(path) == path \in AllFiles \ {FileLocked}
MetaArtist(path) ==
    CASE path = FileS30 -> Some("Artist")
      [] path = FileC60 -> Some("Band")
      [] OTHER -> None
MetaTitle(path) ==
    CASE path = FileS30 -> Some("Title")
      [] path = FileB -> Some("Solo")
      [] path = FileC40 -> Some("")
      [] OTHER -> None

(***************************************************************************)
(* RuleEntry and its methods.                                               *)
(***************************************************************************)
\* RuleEntry { url, duration (minutes), audio_files }
RuleEntry(url, duration, audio_files) ==
    [url |-> url, duration |-> duration, audio_files |-> audio_files]

\* audio_files.choose(&mut thread_rng()): the picks the generator can make,
\* Some(path) for every element, None alone for an empty list
Choose(audio_files) ==
    IF audio_files = <<>> THEN {None}
    ELSE {Some(audio_files[i]) : i \in 1..Len(audio_files)}

MinutesTakenAsSeconds(rule_entry) == rule_entry.duration * TicksPerSecond

\* duration as f64 * 60.0, in ticks
get_duration_in_seconds(rule_entry) == rule_entry.duration * 60 * TicksPerSecond

\* get_duration: ffprobe's output parsed as f64; None is the panic of unwrap()
get_duration(path) == FfprobeDuration(path)

(***************************************************************************)
(* read_script and open_audio_files.                                        *)
(***************************************************************************)
\* read_script: one RuleEntry per (path, minutes) pair, audio_files empty
\* (paths in the script are absolute here)
ReadScriptEntries(pairs) ==
    [k \in 1..Len(pairs) |-> RuleEntry(pairs[k].url, pairs[k].minutes, <<>>)]

\* the files one rule gets: the url itself if it is a file, every file of the
\* directory if it is one ("{url}/{file_name}"), nothing otherwise
OpenRule(rule_entry) ==
    IF IsFile(rule_entry.url)
    THEN [rule_entry EXCEPT !.audio_files = Append(@, rule_entry.url)]
    ELSE IF IsDir(rule_entry.url)
    THEN LET names == ReadDir(rule_entry.url)
         IN  [rule_entry EXCEPT !.audio_files =
                 @ \o [k \in 1..Len(names) |-> Append(rule_entry.url, names[k])]]
    ELSE rule_entry

(***************************************************************************)
(* get_display_name.                                                        *)
(***************************************************************************)
\* path.split('/').last().unwrap()
DefaultName(path) == path[Len(path)]

\* the name built from the opened file's metadata
ComposeName(path) ==
    LET withArtist == IF MetaArtist(path) # None
                      THEN MetaArtist(path)[1] \o " - " ELSE ""
        withTitle == IF MetaTitle(path) # None
                     THEN withArtist \o MetaTitle(path)[1] ELSE withArtist
    IN  IF withTitle = "" THEN DefaultName(path) ELSE withTitle

\* get_display_name(path, map): the name returned (None when it panics), the map
\* afterwards, and whether ffmpeg::format::input was called
GetDisplayNameNoInsert(path, map) ==
    IF path \in DOMAIN map
    THEN [name |-> Some(map[path]), map |-> map, opened |-> FALSE]
    ELSE IF InputOpens(path)
    THEN [name |-> Some(ComposeName(path)), map |-> map, opened |-> TRUE]
    ELSE [name |-> None, map |-> map, opened |-> TRUE]

GetDisplayNameDefaulting(path, map) ==
    IF path \in DOMAIN map
    THEN [name |-> Some(map[path]), map |-> map, opened |-> FALSE]
    ELSE LET display_name == IF InputOpens(path) THEN ComposeName(path)
                             ELSE DefaultName(path)
         IN  [name |-> Some(display_name),
              map |-> (path :> display_name) @@ map,
              opened |-> TRUE]

get_display_name(path, map) ==
    IF path \in DOMAIN map
    THEN [name |-> Some(map[path]), map |-> map, opened |-> FALSE]
    ELSE IF InputOpens(path)
    THEN LET display_name == ComposeName(path)
         IN  [name |-> Some(display_name),
              map |-> (path :> display_name) @@ map,
              opened |-> TRUE]
    ELSE [name |-> None, map |-> map, opened |-> TRUE]

(***************************************************************************)
(* format_time and generate_srt.                                            *)
(***************************************************************************)
Digit(n) == <<"0", "1", "2", "3", "4", "5", "6", "7", "8", "9">>[n + 1]

\* {} of an unsigned integer
RECURSIVE Decimal(_)
Decimal(n) == IF n < 10 THEN Digit(n) ELSE Decimal(n \div 10) \o Digit(n % 10)

\* {:0width$} of an unsigned integer: zero-padded to at least width digits
RECURSIVE Padded(_, _)
Padded(n, width) ==
    IF Len(Decimal(n)) >= width THEN Decimal(n) ELSE "0" \o Padded(n, width - 1)

\* the four numbers format_time computes from time (ticks); floor() of a
\* non-negative value is integer division
FormatFieldsMillis(time) ==
    LET hours == time \div (3600 * TicksPerSecond)
        minutes == (time - hours * 3600 * TicksPerSecond) \div (60 * TicksPerSecond)
        seconds == (time - hours * 3600 * TicksPerSecond
                         - minutes * 60 * TicksPerSecond) \div TicksPerSecond
        milliseconds == ((time - hours * 3600 * TicksPerSecond
                               - minutes * 60 * TicksPerSecond
                               - seconds * TicksPerSecond) * 1000) \div TicksPerSecond
    IN  [hours |-> hours, minutes |-> minutes, seconds |-> seconds,
         milliseconds |-> milliseconds]

FormatFields(time) ==
    LET hours == time \div (3600 * TicksPerSecond)
        minutes == (time - hours * 3600 * TicksPerSecond) \div (60 * TicksPerSecond)
        seconds == (time - hours * 3600 * TicksPerSecond
                         - minutes * 60 * TicksPerSecond) \div TicksPerSecond
        milliseconds == (time - hours * 3600 * TicksPerSecond
                              - minutes * 60 * TicksPerSecond
                              - seconds * TicksPerSecond) \div TicksPerSecond
    IN  [hours |-> hours, minutes |-> minutes, seconds |-> seconds,
         milliseconds |-> milliseconds]

\* format!("{:02}:{:02}:{:02},{:04}", hours, minutes, seconds, milliseconds)
format_time(time) ==
    LET f == FormatFields(time)
    IN  Padded(f.hours, 2) \o ":" \o Padded(f.minutes, 2) \o ":"
            \o Padded(f.seconds, 2) \o "," \o Padded(f.milliseconds, 4)

\* DisplayName { name, start, end }
DisplayName(name, start, end) == [name |-> name, start |-> start, end |-> end]

\* generate_srt, as the lines of the string it builds: per cue the 1-based
\* number, "start --> end", the name and an empty line
RECURSIVE generate_srt(_)
generate_srt(names) ==
    IF names = <<>> THEN <<>>
    ELSE LET i == Len(names)
             display_name == names[i]
         IN  generate_srt(SubSeq(names, 1, i - 1))
                 \o << Decimal(i),
                       format_time(display_name.start) \o " --> "
                           \o format_time(display_name.end),
                       display_name.name,
                       "" >>

\* the track-list file's lines: "file '{audio}'" per track
PathString(path) ==
    LET RECURSIVE Join(_)
        Join(k) == IF k = 1 THEN path[1] ELSE Join(k - 1) \o "/" \o path[k]
    IN  Join(Len(path))

PlaylistLines(playlist) ==
    [k \in 1..Len(playlist) |-> "file '" \o PathString(playlist[k]) \o "'"]

(***************************************************************************)
(* Inputs and the initial state.                                            *)
(***************************************************************************)
ScriptPairs == [url : Sources, minutes : 0..MaxQuotaMinutes]
Scripts == UNION {[1..n -> ScriptPairs] : n \in 0..MaxRules}
TargetDurations == {45 * TicksPerSecond, 130 * TicksPerSecond, MaxTarget}

NoFile == [status |-> "absent", lines |-> <<>>, flushed |-> FALSE]
NoPath == <<>>

SchedulerIdle ==
    /\ rule_entries = <<>>
    /\ total_duration = 0
    /\ play_list = <<>>
    /\ display_namelist = <<>>
    /\ path_displayname_map = <<>>
    /\ total_time = 0
    /\ cur_time = 0
    /\ index = 0
    /\ playlist_file = NoFile
    /\ srt_file = NoFile
    /\ ffmpeg = "not_started"
    /\ abort_reason = "none"
    /\ inspector_calls = [path \in AllFiles |-> 0]
    /\ first_name = <<>>
    /\ rule_origin = <<>>
    /\ rotated = <<>>

Init ==
    /\ pc = "read_script"
    /\ script \in Scripts
    /\ video_duration \in TargetDurations
    /\ SchedulerIdle
    /\ timestamp = 0
    /\ formatted = ""

replace_vars == <<playlist_file, srt_file, ffmpeg>>
history_vars == <<inspector_calls, first_name, rule_origin, rotated>>
input_vars == <<script, video_duration, timestamp, formatted>>
schedule_vars == <<total_duration, play_list, display_namelist,
                   path_displayname_map, total_time, cur_time, index>>

PanicAndProceed(reason) ==
    /\ pc' = "replace_audio"
    /\ abort_reason' = reason

\* a panic: the process ends
Panic(reason) ==
    /\ pc' = "aborted"
    /\ abort_reason' = reason

(***************************************************************************)
(* main, up to the call of generate_play_list.                              *)
(***************************************************************************)
ReadScript ==
    /\ pc = "read_script"
    /\ rule_entries' = ReadScriptEntries(script)
    /\ pc' = "open_audio_files"
    /\ UNCHANGED <<schedule_vars, replace_vars, history_vars, input_vars, abort_reason>>

OpenAudioFiles ==
    /\ pc = "open_audio_files"
    /\ rule_entries' = [k \in 1..Len(rule_entries) |-> OpenRule(rule_entries[k])]
    /\ pc' = "get_duration"
    /\ UNCHANGED <<schedule_vars, replace_vars, history_vars, input_vars, abort_reason>>

\* get_duration(&video_name), then generate_play_list's locals are initialised
ProbeVideo ==
    /\ pc = "get_duration"
    /\ total_duration' = video_duration
    /\ play_list' = <<>>
    /\ display_namelist' = <<>>
    /\ path_displayname_map' = <<>>
    /\ total_time' = 0
    /\ cur_time' = 0
    /\ index' = 0
    /\ pc' = "generate_play_list"
    /\ UNCHANGED <<rule_entries, replace_vars, history_vars, input_vars, abort_reason>>

\* ffprobe is missing or prints no number for the video
ProbeVideoPanic ==
    /\ pc = "get_duration"
    /\ Panic("video_duration")
    /\ UNCHANGED <<rule_entries, schedule_vars, replace_vars, history_vars, input_vars>>

(***************************************************************************)
(* generate_play_list: one action per way an iteration of the loop ends.    *)
(***************************************************************************)
LoopConditionInclusive(time, target) == time <= target

\* while total_time < total_duration
LoopCondition(time, target) == time < target

ShouldRotateAtQuota(time, rule_entry) == time >= get_duration_in_seconds(rule_entry)

\* if cur_time > rule_entry.get_duration_in_seconds()
ShouldRotate(time, rule_entry) == time > get_duration_in_seconds(rule_entry)

NextIndexStuck(i, len) == i % len

\* (index + 1) % rule_entries.len()
NextIndex(i, len) == (i + 1) % len

SegmentFromZero(name, prev_time, end_time) == DisplayName(name, 0, end_time)

\* DisplayName { name, start: prev_time, end: total_time }
Segment(name, prev_time, end_time) == DisplayName(name, prev_time, end_time)

InLoop ==
    /\ pc = "generate_play_list"
    /\ LoopCondition(total_time, total_duration)

\* rule_entries[index] is out of bounds
IndexPanic ==
    /\ InLoop
    /\ index >= Len(rule_entries)
    /\ Panic("no_rules")
    /\ UNCHANGED <<rule_entries, schedule_vars, replace_vars, history_vars, input_vars>>

\* get_random_audio: choose() on an empty list is None, unwrap() panics
EmptyPoolPanic ==
    /\ InLoop
    /\ index < Len(rule_entries)
    /\ None \in Choose(rule_entries[index + 1].audio_files)
    /\ Panic("empty_pool")
    /\ UNCHANGED <<rule_entries, schedule_vars, replace_vars, history_vars, input_vars>>

\* get_duration(&audio) panics, after the track was pushed
DurationPanic ==
    /\ InLoop
    /\ index < Len(rule_entries)
    /\ \E pick \in Choose(rule_entries[index + 1].audio_files) :
          /\ pick # None
          /\ get_duration(pick[1]) = None
          /\ play_list' = Append(play_list, pick[1])
    /\ Panic("no_duration")
    /\ UNCHANGED <<rule_entries, total_duration, display_namelist,
                   path_displayname_map, total_time, cur_time, index,
                   replace_vars, history_vars, input_vars>>

\* get_display_name panics, after the times were advanced
OpenPanic ==
    /\ InLoop
    /\ index < Len(rule_entries)
    /\ \E pick \in Choose(rule_entries[index + 1].audio_files) :
          /\ pick # None
          /\ get_duration(pick[1]) # None
          /\ LET audio == pick[1]
                 audio_duration == get_duration(audio)[1]
                 shown == get_display_name(audio, path_displayname_map)
             IN  /\ shown.name = None
                 /\ play_list' = Append(play_list, audio)
                 /\ total_time' = total_time + audio_duration
                 /\ cur_time' = cur_time + audio_duration
                 /\ path_displayname_map' = shown.map
                 /\ inspector_calls' =
                        IF shown.opened
                        THEN [inspector_calls EXCEPT ![audio] = @ + 1]
                        ELSE inspector_calls
    /\ Panic("cannot_open")
    /\ UNCHANGED <<rule_entries, total_duration, display_namelist, index,
                   replace_vars, first_name, rule_origin, rotated, input_vars>>

\* a whole iteration: pick, account, name, rotate
ScheduleTrack ==
    /\ InLoop
    /\ index < Len(rule_entries)
    /\ \E pick \in Choose(rule_entries[index + 1].audio_files) :
          /\ pick # None
          /\ get_duration(pick[1]) # None
          /\ LET rule_entry == rule_entries[index + 1]
                 audio == pick[1]
                 prev_time == total_time
                 audio_duration == get_duration(audio)[1]
                 shown == get_display_name(audio, path_displayname_map)
                 rotate == ShouldRotate(cur_time + audio_duration, rule_entry)
             IN  /\ shown.name # None
                 /\ play_list' = Append(play_list, audio)
                 /\ total_time' = total_time + audio_duration
                 /\ path_displayname_map' = shown.map
                 /\ display_namelist' =
                        Append(display_namelist,
                               Segment(shown.name[1], prev_time,
                                       total_time + audio_duration))
                 /\ cur_time' = IF rotate THEN 0 ELSE cur_time + audio_duration
                 /\ index' = IF rotate THEN NextIndex(index, Len(rule_entries))
                             ELSE index
                 /\ inspector_calls' =
                        IF shown.opened
                        THEN [inspector_calls EXCEPT ![audio] = @ + 1]
                        ELSE inspector_calls
                 /\ first_name' =
                        IF audio \in DOMAIN first_name THEN first_name
                        ELSE (audio :> shown.name[1]) @@ first_name
                 /\ rule_origin' = Append(rule_origin, index)
                 /\ rotated' = Append(rotated, rotate)
    /\ UNCHANGED <<pc, rule_entries, total_duration, replace_vars, abort_reason,
                   input_vars>>

\* the loop ends; main calls replace_audio with the two lists
ReturnPlayList ==
    /\ pc = "generate_play_list"
    /\ ~LoopCondition(total_time, total_duration)
    /\ pc' = "replace_audio"
    /\ UNCHANGED <<rule_entries, schedule_vars, replace_vars, history_vars,
                   input_vars, abort_reason>>

(***************************************************************************)
(* replace_audio.                                                           *)
(***************************************************************************)
DropLeaking(file) == file

\* NamedTempFile's Drop: the file is deleted (a value never created has none)
Drop(file) ==
    IF file.status = "open" THEN [file EXCEPT !.status = "removed"] ELSE file

\* which("ffmpeg").unwrap()
WhichFfmpeg ==
    /\ pc = "replace_audio"
    /\ pc' = "write_playlist"
    /\ UNCHANGED <<rule_entries, schedule_vars, replace_vars, history_vars,
                   input_vars, abort_reason>>

WhichFfmpegPanic ==
    /\ pc = "replace_audio"
    /\ Panic("no_ffmpeg")
    /\ UNCHANGED <<rule_entries, schedule_vars, replace_vars, history_vars, input_vars>>

\* NamedTempFile::new(), then one writeln! per track
WritePlaylistFile ==
    /\ pc = "write_playlist"
    /\ playlist_file' = [status |-> "open", lines |-> PlaylistLines(play_list),
                         flushed |-> FALSE]
    /\ pc' = "write_srt"
    /\ UNCHANGED <<rule_entries, schedule_vars, srt_file, ffmpeg, history_vars,
                   input_vars, abort_reason>>

\* NamedTempFile::new(), generate_srt, write_all
WriteSrtFile ==
    /\ pc = "write_srt"
    /\ srt_file' = [status |-> "open", lines |-> generate_srt(display_namelist),
                    flushed |-> FALSE]
    /\ pc' = "flush_playlist"
    /\ UNCHANGED <<rule_entries, schedule_vars, playlist_file, ffmpeg, history_vars,
                   input_vars, abort_reason>>

FlushPlaylistFile ==
    /\ pc = "flush_playlist"
    /\ playlist_file' = [playlist_file EXCEPT !.flushed = TRUE]
    /\ pc' = "flush_srt"
    /\ UNCHANGED <<rule_entries, schedule_vars, srt_file, ffmpeg, history_vars,
                   input_vars, abort_reason>>

FlushSrtFile ==
    /\ pc = "flush_srt"
    /\ srt_file' = [srt_file EXCEPT !.flushed = TRUE]
    /\ pc' = "launch"
    /\ UNCHANGED <<rule_entries, schedule_vars, playlist_file, ffmpeg, history_vars,
                   input_vars, abort_reason>>

\* an unwrap() on a temp-file operation panics; unwinding drops the files
TempFilePanic ==
    /\ pc \in {"write_playlist", "write_srt", "flush_playlist", "flush_srt"}
    /\ playlist_file' = Drop(playlist_file)
    /\ srt_file' = Drop(srt_file)
    /\ Panic("temp_file")
    /\ UNCHANGED <<rule_entries, schedule_vars, ffmpeg, history_vars, input_vars>>

\* cmd ... .output(): the child is spawned and waited for
LaunchFfmpeg ==
    /\ pc = "launch"
    /\ ffmpeg' = "running"
    /\ pc' = "wait"
    /\ UNCHANGED <<rule_entries, schedule_vars, playlist_file, srt_file,
                   history_vars, input_vars, abort_reason>>

\* .output() is Err, expect() panics; unwinding drops the files
LaunchFfmpegPanic ==
    /\ pc = "launch"
    /\ ffmpeg' = "spawn_failed"
    /\ playlist_file' = Drop(playlist_file)
    /\ srt_file' = Drop(srt_file)
    /\ Panic("ffmpeg_spawn")
    /\ UNCHANGED <<rule_entries, schedule_vars, history_vars, input_vars>>

\* the child exits, with success or with an error status
FfmpegExit ==
    /\ pc = "wait"
    /\ ffmpeg' \in {"exited_ok", "exited_error"}
    /\ pc' = "print_stderr"
    /\ UNCHANGED <<rule_entries, schedule_vars, playlist_file, srt_file,
                   history_vars, input_vars, abort_reason>>

\* eprint! of the child's stderr; replace_audio returns, its locals are dropped
ReturnFromReplaceAudio ==
    /\ pc = "print_stderr"
    /\ playlist_file' = Drop(playlist_file)
    /\ srt_file' = Drop(srt_file)
    /\ pc' = "done"
    /\ UNCHANGED <<rule_entries, schedule_vars, ffmpeg, history_vars, input_vars,
                   abort_reason>>

Next ==
    \/ ReadScript
    \/ OpenAudioFiles
    \/ ProbeVideo
    \/ ProbeVideoPanic
    \/ IndexPanic
    \/ EmptyPoolPanic
    \/ DurationPanic
    \/ OpenPanic
    \/ ScheduleTrack
    \/ ReturnPlayList
    \/ WhichFfmpeg
    \/ WhichFfmpegPanic
    \/ WritePlaylistFile
    \/ WriteSrtFile
    \/ FlushPlaylistFile
    \/ FlushSrtFile
    \/ TempFilePanic
    \/ LaunchFfmpeg
    \/ LaunchFfmpegPanic
    \/ FfmpegExit
    \/ ReturnFromReplaceAudio

Spec == Init /\ [][Next]_vars

(***************************************************************************)
(* format_time on its own, over every time up to MaxTimestamp ticks.        *)
(***************************************************************************)
FormatInit ==
    /\ pc = "format_time"
    /\ script = <<>>
    /\ video_duration = 0
    /\ SchedulerIdle
    /\ timestamp \in 0..MaxTimestamp
    /\ formatted = ""

FormatTime ==
    /\ pc = "format_time"
    /\ formatted' = format_time(timestamp)
    /\ pc' = "formatted"
    /\ UNCHANGED <<script, video_duration, rule_entries, schedule_vars,
                   replace_vars, history_vars, abort_reason, timestamp>>

FormatNext == FormatTime

SpecFormat == FormatInit /\ [][FormatNext]_vars

(***************************************************************************)
(* Vocabulary of the properties.                                            *)
(***************************************************************************)
SchedulerPanics == {"no_rules", "empty_pool", "no_duration", "cannot_open"}

\* generate_play_list has returned its two lists
Returned ==
    \/ pc \in {"replace_audio", "write_playlist", "write_srt", "flush_playlist",
               "flush_srt", "launch", "wait", "print_stderr", "done"}
    \/ pc = "aborted" /\ abort_reason \in {"no_ffmpeg", "temp_file", "ffmpeg_spawn"}

\* open_audio_files has run
RulesLoaded == pc \notin {"read_script", "open_audio_files", "format_time", "formatted"}

Candidates == UNION {{rule_entries[k].audio_files[i] :
                         i \in 1..Len(rule_entries[k].audio_files)} :
                     k \in 1..Len(rule_entries)}

\* every candidate has a duration and can be opened
CandidatesHealthy ==
    \A path \in Candidates : get_duration(path) # None /\ InputOpens(path)

TrackDurations == {get_duration(path)[1] : path \in {c \in Candidates : get_duration(c) # None}}

Largest(S) == CHOOSE x \in S : \A y \in S : y <= x
Smallest(S) == CHOOSE x \in S : \A y \in S : x <= y

\* the summed durations of the tracks of a playlist whose tracks all have one
RECURSIVE SumOfDurations(_)
SumOfDurations(playlist) ==
    IF playlist = <<>> THEN 0
    ELSE get_duration(playlist[Len(playlist)])[1]
            + SumOfDurations(SubSeq(playlist, 1, Len(playlist) - 1))

IsPrefix(a, b) == Len(a) <= Len(b) /\ SubSeq(b, 1, Len(a)) = a

(***************************************************************************)
(* C1  Coverage.                                                            *)
(***************************************************************************)
\* C1 as stated: with a target T > 0 and a rule set holding at least one
\* non-empty rule (every track with a positive duration and readable), the
\* scheduler never fails: it ends with a playlist.
C1_AnyNonEmptyRuleSuffices ==
    (/\ RulesLoaded
     /\ \E k \in 1..Len(rule_entries) : rule_entries[k].audio_files # <<>>
     /\ CandidatesHealthy)
        => abort_reason \notin SchedulerPanics

\* C1 amended: every run of generate_play_list that selects no empty rule and
\* whose picked tracks the inspector measures and opens ends, after at most
\* ceil(T / shortest track) iterations, with a non-empty playlist whose summed
\* durations S satisfy T <= S < T + (the longest track of the rule set); when
\* every rule is non-empty (and the tracks are readable) no run fails, and a run
\* fails on an empty pool exactly by selecting an empty rule.
C1_Coverage ==
    /\ Returned =>
          /\ play_list # <<>>
          /\ SumOfDurations(play_list) >= total_duration
          /\ SumOfDurations(play_list) < total_duration + Largest(TrackDurations)
          /\ SumOfDurations(SubSeq(play_list, 1, Len(play_list) - 1)) < total_duration
    /\ (pc = "generate_play_list" /\ play_list # <<>>) =>
          /\ (Len(play_list) - 1) * Smallest(TrackDurations) < total_duration
          /\ SumOfDurations(play_list) = total_time
    /\ pc = "generate_play_list" => ENABLED Next
    /\ (/\ RulesLoaded
        /\ rule_entries # <<>>
        /\ \A k \in 1..Len(rule_entries) : rule_entries[k].audio_files # <<>>
        /\ CandidatesHealthy)
          => abort_reason \notin SchedulerPanics
    /\ abort_reason = "empty_pool" => rule_entries[index + 1].audio_files = <<>>

\* a run over two rules that overshot the target with its last track
C1_Witness ==
    /\ pc = "replace_audio"
    /\ Len(rule_entries) = 2
    /\ Len(play_list) >= 3
    /\ total_time > total_duration

SingleFixedRule ==
    /\ RulesLoaded
    /\ Len(rule_entries) = 1
    /\ rule_entries[1].audio_files # <<>>
    /\ CandidatesHealthy
    /\ Cardinality(TrackDurations) = 1

SingleDuration == Largest(TrackDurations)
SingleQuota == rule_entries[1].duration * 60 * TicksPerSecond

\* C3 as stated: a single rule of quota Q > 0 with tracks of duration d rotates
\* after track i exactly when i is a multiple of ceil(Q/d), also when d divides Q.
C3_RotatesEveryCeil ==
    (SingleFixedRule /\ SingleQuota > 0) =>
        \A i \in 1..Len(rotated) :
            rotated[i] <=>
                i % ((SingleQuota + SingleDuration - 1) \div SingleDuration) = 0

\* C3 amended: a single rule of quota Q >= 0 with tracks of duration d rotates
\* after track i exactly when i is a multiple of floor(Q/d) + 1; that is
\* ceil(Q/d) when d does not divide Q and Q/d + 1 when it does.
C3_RotatesEveryFloorPlusOne ==
    SingleFixedRule =>
        \A i \in 1..Len(rotated) :
            /\ rotated[i] <=> i % (SingleQuota \div SingleDuration + 1) = 0
            /\ rule_origin[i] = 0

\* a rotation has happened under a quota the track duration divides
C3_Witness ==
    /\ SingleFixedRule
    /\ SingleQuota > 0
    /\ SingleQuota % SingleDuration = 0
    /\ \E i \in 1..Len(rotated) : rotated[i]

(***************************************************************************)
(* C4  End-to-end scenario.                                                 *)
(***************************************************************************)
\* rule A: the directory of a 30 s and a 45 s track, 1 minute; rule B: the 20 s
\* file, 1 minute; target 130 s
Scenario ==
    /\ script = <<[url |-> DirA, minutes |-> 1], [url |-> FileB, minutes |-> 1]>>
    /\ video_duration = 130 * TicksPerSecond

\* C4 as stated: every playlist of the scenario starts A, A, B, A and lasts at
\* least 130 s.
C4_StartsAABA ==
    Scenario =>
        /\ Len(rule_origin) >= 4 => SubSeq(rule_origin, 1, 4) = <<0, 0, 1, 0>>
        /\ Returned => total_time >= 130 * TicksPerSecond

\* C4 amended: every playlist of the scenario has the rule-origin sequence
\* A,A,B,B or A,A,B,B,B, or A,A,A,B,B when rule A's first two tracks are the two
\* 30 s ones (60 s does not exceed the quota); rule B's 20 s tracks never exceed
\* its quota before the target is reached, so no playlist returns to A; the
\* total duration is at least 130 s and no run fails.
C4_ScenarioOrigins ==
    Scenario =>
        /\ \E whole \in {<<0, 0, 1, 1>>, <<0, 0, 1, 1, 1>>, <<0, 0, 0, 1, 1>>} :
              /\ IsPrefix(rule_origin, whole)
              /\ Returned => rule_origin = whole
        /\ (Len(rule_origin) >= 3 /\ rule_origin[3] = 0) <=>
              (Len(play_list) >= 3 /\ play_list[1] = FileS30 /\ play_list[2] = FileS30)
        /\ Returned => total_time >= 130 * TicksPerSecond
        /\ abort_reason \notin SchedulerPanics

C4_Witness ==
    /\ Scenario
    /\ pc = "replace_audio"
    /\ rule_origin = <<0, 0, 0, 1, 1>>

(***************************************************************************)
(* C5  Cache idempotence.                                                   *)
(***************************************************************************)
\* C5: within one run ffmpeg::format::input is called at most once per path, an
\* entry of the cache is never overwritten or removed, and every segment of a
\* path carries the name the first lookup of that path returned.
C5_CacheIdempotent ==
    /\ [](/\ \A path \in AllFiles : inspector_calls[path] <= 1
          /\ \A i \in 1..Len(display_namelist) :
                /\ play_list[i] \in DOMAIN first_name
                /\ display_namelist[i].name = first_name[play_list[i]]
          /\ \A path \in DOMAIN path_displayname_map :
                /\ inspector_calls[path] = 1
                /\ path_displayname_map[path] = first_name[path])
    /\ [][\A path \in DOMAIN path_displayname_map :
              /\ path \in DOMAIN path_displayname_map'
              /\ path_displayname_map'[path] = path_displayname_map[path]]_vars

\* a finished run that named the same path three times with one inspector call
C5_Witness ==
    /\ pc = "done"
    /\ \E i, j, k \in 1..Len(display_namelist) :
          /\ i < j /\ j < k
          /\ play_list[i] = play_list[j] /\ play_list[j] = play_list[k]
          /\ display_namelist[i].name = display_namelist[k].name
          /\ inspector_calls[play_list[i]] = 1

(***************************************************************************)
(* C6  No partial success.                                                  *)
(***************************************************************************)
\* the track the iteration in progress picked, when a step pushed one
PickedIn(before, after) == after[Len(after)]

QuotaTicks(k) == rule_entries[k + 1].duration * 60 * TicksPerSecond

C10_TempFiles ==
    /\ ffmpeg = "running" =>
          /\ playlist_file.status = "open" /\ playlist_file.flushed
          /\ srt_file.status = "open" /\ srt_file.flushed
          /\ Len(playlist_file.lines) = Len(play_list)
          /\ \A k \in 1..Len(play_list) :
                playlist_file.lines[k] = "file '" \o PathString(play_list[k]) \o "'"
          /\ srt_file.lines = generate_srt(display_namelist)
          /\ Len(srt_file.lines) = 4 * Len(display_namelist)
    /\ pc = "launch" => playlist_file.flushed /\ srt_file.flushed
    /\ pc = "print_stderr" =>
          playlist_file.status = "open" /\ srt_file.status = "open"
    /\ (pc = "done" \/ ffmpeg = "spawn_failed") =>
          playlist_file.status = "removed" /\ srt_file.status = "removed"
    /\ pc \in {"done", "aborted"} =>
          playlist_file.status # "open" /\ srt_file.status # "open"

\* ffmpeg could not be launched and both written files are gone
C10_Witness ==
    /\ pc = "aborted"
    /\ ffmpeg = "spawn_failed"
    /\ playlist_file.status = "removed"
    /\ srt_file.status = "removed"
    /\ Len(playlist_file.lines) >= 2

=============================================================================
